---- MODULE Spec2Model ----
(***************************************************************************)
(* Model of amq.backends.pyamqplib.Backend (src/amq/backends/pyamqplib.py):*)
(* one backend instance, the channel it lazily obtains from its            *)
(* connection, and the broker that channel talks to.                       *)
(*                                                                         *)
(* The backend is glue over the amqplib channel, so the model carries the  *)
(* part of the channel and of the broker that the backend's own branches   *)
(* read: channel.is_open and channel.connection (both dropped when the     *)
(* channel is closed, by the client or by the server), and the reply of    *)
(* the server to each method.  An AMQPChannelException is the client's     *)
(* rendering of the server closing the channel (Channel.Close with a reply *)
(* code), so every such exception leaves the channel closed.               *)
(***************************************************************************)
EXTENDS Integers, Sequences, FiniteSets, TLC

\* ------------------------------------------------------------------ bounds
MaxChannels == 2     \* cap on connection.get_channel() calls
MaxWaits == 4        \* cap on the waits of one unbounded consume sequence
MaxLimit == 3        \* largest limit passed to consume
MaxReady == 2        \* cap on the ready messages of one queue
MaxTags == 2         \* cap on the delivery tags a channel issues

\* ---------------------------------------------------------------- domains
QueueNames == {"q1", "q2"}
ExchangeNames == {"x1"}
RoutingKeys == {"k1", "k2"}
Bodies == {"b1"}
ConsumerTags == {"t1"}

NoChannel == 0

\* A queue as the broker holds it.  state: "absent", "own" (declared, usable
\* from this connection) or "foreign" (an exclusive queue of another
\* connection: every method naming it is refused with 405 RESOURCE_LOCKED).
Absent == [state |-> "absent", durable |-> FALSE, exclusive |-> FALSE, auto_delete |-> FALSE]
Foreign == [state |-> "foreign", durable |-> FALSE, exclusive |-> TRUE, auto_delete |-> FALSE]
Own(d, x, a) == [state |-> "own", durable |-> d, exclusive |-> x, auto_delete |-> a]

VARIABLES
    pep479,           \* interpreter: StopIteration raised in a generator becomes RuntimeError
    _channel,         \* Backend._channel: NoChannel or the id of the channel object
    is_open,          \* channel.is_open of that channel object
    connection,       \* channel.connection of that channel object is set (the link)
    getChannelCalls,  \* number of connection.get_channel() calls so far
    closeCalled,      \* Backend.close() has been called on this instance
    queues,           \* broker: queue name -> queue
    exchanges,        \* broker: declared exchanges
    bindings,         \* broker: <<queue, exchange, routing_key>>
    ready,            \* broker: queue name -> sequence of ready messages
    unacked,          \* broker: deliveries of this channel awaiting ack/reject
    nextTag,          \* broker: next delivery tag of this channel
    consumers,        \* broker: consumer registrations of this channel
    pendingClose,     \* reply code of a Channel.Close the server sent and the client has not read
    gen,              \* the generator returned by consume()
    last              \* the last call: operation, argument, outcome, methods sent

topo == <<queues, exchanges, bindings>>
delivery == <<ready, unacked, nextTag, consumers>>
vars == <<pep479, _channel, is_open, connection, getChannelCalls, closeCalled,
          queues, exchanges, bindings, ready, unacked, nextTag, consumers,
          pendingClose, gen, last>>

\* status: "none", "suspended" (created, or at a yield), "done" (the sequence
\* ended), "raised" (an exception left the generator: err)
NoGen == [status |-> "none", hasLimit |-> FALSE, limit |-> 0, count |-> 0, waits |-> 0,
          yields |-> 0, err |-> "none"]

\* The five attributes Message.__init__ copies from the raw delivery.
MessageFields == {"body", "delivery_tag", "content_type", "content_encoding", "delivery_info"}
NoEnvelope == [f \in MessageFields |-> "-"]

\* cb: the consumer tag whose callback the call dispatched to, or "-";
\* env: the Message the call returned, or NoEnvelope
CallEnv(op, arg, ret, err, sent, warned, cb, env) ==
    [op |-> op, arg |-> arg, ret |-> ret, err |-> err, sent |-> sent, warned |-> warned,
     cb |-> cb, env |-> env]
CallCb(op, arg, ret, err, sent, warned, cb) ==
    CallEnv(op, arg, ret, err, sent, warned, cb, NoEnvelope)
Call(op, arg, ret, err, sent, warned) == CallCb(op, arg, ret, err, sent, warned, "-")

\* ------------------------------------------------------ Backend.__init__
\* A new backend on a broker other clients have used: a queue name is free,
\* taken by a usable durable queue, or held exclusively by another connection.
InitBackend ==
    /\ _channel = NoChannel
    /\ is_open = FALSE
    /\ connection = FALSE
    /\ getChannelCalls = 0
    /\ closeCalled = FALSE
    /\ queues \in [QueueNames -> {Absent, Foreign, Own(TRUE, FALSE, FALSE)}]
    /\ queues["q2"] = Absent
    /\ exchanges = {}
    /\ bindings = {}
    /\ ready = [q \in QueueNames |-> <<>>]
    /\ unacked = {}
    /\ nextTag = 1
    /\ consumers = {}
    /\ pendingClose = "none"
    /\ gen = NoGen
    /\ last = Call("init", <<>>, "None", "none", <<>>, 0)

Init == InitBackend /\ pep479 = FALSE

InitConsume == InitBackend /\ pep479 \in BOOLEAN

\* ------------------------------------------------- the `channel` property
\* (mutant) a closed channel is replaced by a new one
channel_missing_or_closed(c) == c = NoChannel \/ ~is_open

\* `if not self._channel`
channel_missing(c) == c = NoChannel

\* The channel object self.channel evaluates to, and its fields, after the
\* property has run: a fresh channel from connection.get_channel() is open.
NeedChannel == channel_missing(_channel)
ch_id == IF NeedChannel THEN getChannelCalls + 1 ELSE _channel
ch_open == IF NeedChannel THEN TRUE ELSE is_open
ch_link == IF NeedChannel THEN TRUE ELSE connection
ch_calls == IF NeedChannel THEN getChannelCalls + 1 ELSE getChannelCalls
CanGetChannel == NeedChannel => getChannelCalls < MaxChannels

SetChan(id, open, lnk, calls) ==
    /\ _channel' = id
    /\ is_open' = open
    /\ connection' = lnk
    /\ getChannelCalls' = calls

\* The channel is torn down (amqplib Channel._do_close, on close-ok or on a
\* Channel.Close from the server): the broker requeues its unacked
\* deliveries, flagged redelivered, and drops its consumers.
Requeued(q) ==
    LET back == {u \in unacked : u.queue = q}
        RECURSIVE Put(_, _)
        Put(s, acc) == IF s = {} THEN acc
                       ELSE LET u == CHOOSE v \in s : \A w \in s : v.tag <= w.tag
                            IN Put(s \ {u}, Append(acc, [u.msg EXCEPT !.redelivered = TRUE]))
    IN Put(back, <<>>) \o ready[q]

TearDownBroker ==
    /\ ready' = [q \in QueueNames |-> Requeued(q)]
    /\ unacked' = {}
    /\ consumers' = {}
    /\ UNCHANGED nextTag

\* ------------------------------------------------ replies of the channel
\* A method that waits for its reply (queue_declare, queue_bind, queue_purge,
\* exchange_declare, basic_get, basic_consume, basic_cancel, close, wait)
\* fails at once on a channel without connection; otherwise it reads a
\* pending Channel.Close first, and else the server's reply `normal`.
\* Replies: "ok", "closed" (no connection behind the channel object), or the
\* reply code of an AMQPChannelException.
ChannelErrors == {"404", "405", "406", "530"}
IsChanExc(reply) == reply \in ChannelErrors

SyncReply(lnk, normal) ==
    IF ~lnk THEN "closed"
    ELSE IF pendingClose # "none" THEN pendingClose
    ELSE normal

\* The client side of a reply: an AMQPChannelException closes the channel
\* object; reading it consumes the pending Channel.Close.
ChanAfter(reply) ==
    /\ SetChan(ch_id,
               IF IsChanExc(reply) THEN FALSE ELSE ch_open,
               IF IsChanExc(reply) THEN FALSE ELSE ch_link,
               ch_calls)
    /\ pendingClose' = IF IsChanExc(reply) THEN "none" ELSE pendingClose

\* The broker side of a failed method: a channel exception raised by this
\* very method tears the channel down; one that was pending did so before.
DeliveryAfterFail(reply) ==
    IF IsChanExc(reply) /\ pendingClose = "none"
    THEN TearDownBroker
    ELSE UNCHANGED delivery

B(b) == IF b THEN "True" ELSE "False"
Raised(reply) == [ret |-> "raise", err |-> reply]
Returned(value) == [ret |-> value, err |-> "none"]

\* -------------------------------------------------------- Backend.close
\* (mutant) close without the is_open test
close_guard_any(id, open) == id # NoChannel

\* `if getattr(self, "channel") and self.channel.is_open`
close_guard(id, open) == id # NoChannel /\ open

close ==
    /\ CanGetChannel
    /\ LET closing == close_guard(ch_id, ch_open)
           reply == IF closing THEN SyncReply(ch_link, "ok") ELSE "ok"
           closedNow == closing /\ reply # "closed"
           out == IF reply = "ok" THEN Returned("None") ELSE Raised(reply)
       IN /\ SetChan(ch_id,
                     IF closedNow THEN FALSE ELSE ch_open,
                     IF closedNow THEN FALSE ELSE ch_link,
                     ch_calls)
          /\ pendingClose' = IF closedNow THEN "none" ELSE pendingClose
          /\ IF closing /\ reply = "ok" THEN TearDownBroker ELSE UNCHANGED delivery
          /\ last' = Call("close", <<>>, out.ret, out.err,
                          IF closedNow THEN <<"channel.close">> ELSE <<>>, 0)
    /\ closeCalled' = TRUE
    /\ UNCHANGED <<pep479, topo, gen>>

\* ------------------------------------------------------- Backend.cancel
\* (mutant) cancel without the connection test
cancel_guard_never(lnk) == FALSE

\* `if not self.channel.connection: return`
cancel_guard(lnk) == ~lnk

cancel(tag) ==
    /\ CanGetChannel
    /\ LET skip == cancel_guard(ch_link)
           reply == IF skip THEN "ok" ELSE SyncReply(ch_link, "ok")
           out == IF reply = "ok" THEN Returned("None") ELSE Raised(reply)
       IN /\ ChanAfter(reply)
          /\ IF ~skip /\ reply = "ok"
             THEN /\ consumers' = {c \in consumers : c.tag # tag}
                  /\ UNCHANGED <<ready, unacked, nextTag>>
             ELSE UNCHANGED delivery
          /\ last' = Call("cancel", <<tag>>, out.ret, out.err,
                          IF ~skip /\ ch_link THEN <<"basic.cancel">> ELSE <<>>, 0)
    /\ UNCHANGED <<pep479, closeCalled, topo, gen>>

\* ------------------------------------------------- Backend.queue_exists
\* The server's reply to queue_declare(queue=queue, passive=True).
passive_declare_reply(q, lnk) ==
    SyncReply(lnk, CASE queues[q].state = "absent" -> "404"
                     [] queues[q].state = "foreign" -> "405"
                     [] OTHER -> "ok")

\* (mutant) every channel exception is taken for "not found"
queue_exists_swallow(reply) ==
    IF reply = "ok" THEN [ret |-> "True", err |-> "none"]
    ELSE IF reply \in ChannelErrors THEN [ret |-> "False", err |-> "none"]
    ELSE [ret |-> "raise", err |-> reply]

\* try / except AMQPChannelException / else
queue_exists_outcome(reply) ==
    IF reply = "ok" THEN Returned("True")
    ELSE IF reply = "404" THEN Returned("False")
    ELSE Raised(reply)

queue_exists(q) ==
    /\ CanGetChannel
    /\ LET reply == passive_declare_reply(q, ch_link)
           out == queue_exists_outcome(reply)
       IN /\ ChanAfter(reply)
          /\ DeliveryAfterFail(reply)
          /\ last' = Call("queue_exists", <<q>>, out.ret, out.err,
                          IF ch_link THEN <<"queue.declare passive">> ELSE <<>>, 0)
    /\ UNCHANGED <<pep479, closeCalled, topo, gen>>

\* ------------------------------------------------ Backend.queue_declare
\* The server's reply to queue_declare(queue, durable, exclusive, auto_delete):
\* a queue that exists is left as it is (AMQP 0-8: the settings are ignored).
declare_reply(q, lnk) ==
    SyncReply(lnk, IF queues[q].state = "foreign" THEN "405" ELSE "ok")

\* `if warn_if_exists and self.queue_exists(queue)`: the probe is made
probes(warn_if_exists) == warn_if_exists

\* ... and the advisory is emitted
warns(warn_if_exists, exists) == warn_if_exists /\ exists = "True"

queue_declare(q, durable, exclusive, auto_delete, warn_if_exists) ==
    /\ CanGetChannel
    /\ LET probed == probes(warn_if_exists)
           preply == passive_declare_reply(q, ch_link)
           probe == queue_exists_outcome(preply)
           probeRaised == probed /\ probe.err # "none"
           \* the channel the declare runs on: the same object, after the probe
           lnk == IF probed /\ IsChanExc(preply) THEN FALSE ELSE ch_link
           dreply == IF probed /\ IsChanExc(preply) THEN "closed"
                     ELSE declare_reply(q, ch_link)
           reply == IF probeRaised THEN preply ELSE dreply
           killer == IF probed /\ IsChanExc(preply) THEN preply ELSE reply
           out == IF probeRaised THEN Raised(preply)
                  ELSE IF dreply = "ok" THEN Returned("declare_ok")
                  ELSE Raised(dreply)
           warned == IF ~probeRaised /\ warns(warn_if_exists, IF probed THEN probe.ret ELSE "-")
                     THEN 1 ELSE 0
           sent == (IF probed /\ ch_link THEN <<"queue.declare passive">> ELSE <<>>)
                   \o (IF ~probeRaised /\ lnk THEN <<"queue.declare">> ELSE <<>>)
       IN /\ ChanAfter(killer)
          /\ DeliveryAfterFail(killer)
          /\ queues' = IF ~probeRaised /\ dreply = "ok" /\ queues[q].state = "absent"
                       THEN [queues EXCEPT ![q] = Own(durable, exclusive, auto_delete)]
                       ELSE queues
          /\ last' = Call("queue_declare", <<q, B(warn_if_exists)>>, out.ret, out.err, sent, warned)
    /\ UNCHANGED <<pep479, closeCalled, exchanges, bindings, gen>>

\* --------------------------------------------- Backend.exchange_declare
exchange_declare(e) ==
    /\ CanGetChannel
    /\ LET reply == SyncReply(ch_link, "ok")
           out == IF reply = "ok" THEN Returned("declare_ok") ELSE Raised(reply)
       IN /\ ChanAfter(reply)
          /\ DeliveryAfterFail(reply)
          /\ exchanges' = IF reply = "ok" THEN exchanges \cup {e} ELSE exchanges
          /\ last' = Call("exchange_declare", <<e>>, out.ret, out.err,
                          IF ch_link THEN <<"exchange.declare">> ELSE <<>>, 0)
    /\ UNCHANGED <<pep479, closeCalled, queues, bindings, gen>>

\* --------------------------------------------------- Backend.queue_bind
\* The server's reply to a method naming queue q (bind, purge, get, consume).
queue_reply(q, lnk) ==
    SyncReply(lnk, CASE queues[q].state = "absent" -> "404"
                     [] queues[q].state = "foreign" -> "405"
                     [] OTHER -> "ok")

queue_bind(q, e, k) ==
    /\ CanGetChannel
    /\ LET qreply == queue_reply(q, ch_link)
           reply == IF qreply = "ok" /\ e \notin exchanges THEN "404" ELSE qreply
           out == IF reply = "ok" THEN Returned("bind_ok") ELSE Raised(reply)
       IN /\ ChanAfter(reply)
          /\ DeliveryAfterFail(reply)
          /\ bindings' = IF reply = "ok" THEN bindings \cup {<<q, e, k>>} ELSE bindings
          /\ last' = Call("queue_bind", <<q, e, k>>, out.ret, out.err,
                          IF ch_link THEN <<"queue.bind">> ELSE <<>>, 0)
    /\ UNCHANGED <<pep479, closeCalled, queues, exchanges, gen>>

\* -------------------------------------------------- Backend.queue_purge
queue_purge(q) ==
    /\ CanGetChannel
    /\ LET reply == queue_reply(q, ch_link)
           out == IF reply = "ok" THEN Returned("purge_ok") ELSE Raised(reply)
       IN /\ ChanAfter(reply)
          /\ IF reply = "ok"
             THEN /\ ready' = [ready EXCEPT ![q] = <<>>]
                  /\ UNCHANGED <<unacked, nextTag, consumers>>
             ELSE DeliveryAfterFail(reply)
          /\ last' = Call("queue_purge", <<q>>, out.ret, out.err,
                          IF ch_link THEN <<"queue.purge">> ELSE <<>>, 0)
    /\ UNCHANGED <<pep479, closeCalled, topo, gen>>

\* A method that does not wait for a reply (basic_publish, basic_ack,
\* basic_reject, basic_consume with nowait) raises only on a channel without
\* connection.  The server ignores it ("ignored") on a channel it has
\* already closed; a channel error it causes stays pending until the client
\* next reads from the channel.
AsyncFate(lnk, normal) ==
    IF ~lnk THEN "closed"
    ELSE IF pendingClose # "none" THEN "ignored"
    ELSE normal

AsyncOutcome(fate) == IF fate = "closed" THEN Raised("closed") ELSE Returned("None")

ChanAfterAsync(fate) ==
    /\ SetChan(ch_id, ch_open, ch_link, ch_calls)
    /\ pendingClose' = IF IsChanExc(fate) THEN fate ELSE pendingClose

\* --------------------------------------------- Backend.prepare_message
ContentTypes == {"text/plain"}
ContentEncodings == {"utf-8"}

prepare_message(message_data, delivery_mode, content_type, content_encoding) ==
    [body |-> message_data, delivery_mode |-> delivery_mode,
     content_type |-> content_type, content_encoding |-> content_encoding,
     redelivered |-> FALSE]

\* ------------------------------- Message.__init__ / message_to_python
\* (mutant) getattr without the default None
getattr_nodefault(amqp_message, attr_name) ==
    IF attr_name \in DOMAIN amqp_message THEN amqp_message[attr_name] ELSE "AttributeError"

\* `getattr(amqp_message, attr_name, None)`
getattr(amqp_message, attr_name) ==
    IF attr_name \in DOMAIN amqp_message THEN amqp_message[attr_name] ELSE "None"

\* (mutant) a keyword argument of the caller is not overwritten
Message_kwargs_keep(amqp_message, kwargs) ==
    [name \in (DOMAIN kwargs) \cup MessageFields |->
        IF name \in DOMAIN kwargs THEN kwargs[name] ELSE getattr(amqp_message, name)]

\* The keyword arguments Message.__init__ hands to BaseMessage.__init__.
Message_kwargs(amqp_message, kwargs) ==
    [name \in (DOMAIN kwargs) \cup MessageFields |->
        IF name \in MessageFields THEN getattr(amqp_message, name) ELSE kwargs[name]]

\* BaseMessage.__init__ (amq.backends.base) keeps the five attributes it is given.
BaseMessage(kwargs) == [f \in MessageFields |-> kwargs[f]]

Message(amqp_message, kwargs) == BaseMessage(Message_kwargs(amqp_message, kwargs))

NoKwargs == [name \in {} |-> "None"]

\* `return self.Message(backend=self, amqp_message=raw_message)`
message_to_python(raw_message) == Message(raw_message, NoKwargs)

\* The delivery as the channel hands it over: body, the properties that were
\* set (a property published as None is not on the wire) and the delivery
\* information.
RawDelivery(m, tag) ==
    LET all == [body |-> m.body,
                delivery_tag |-> ToString(tag),
                content_type |-> m.content_type,
                content_encoding |-> m.content_encoding,
                delivery_info |-> IF m.redelivered THEN "redelivered" ELSE "first"]
    IN [f \in {g \in MessageFields : all[g] # "None"} |-> all[f]]

\* ------------------------------------------------------ Backend.publish
Routed(e, k) == {q \in QueueNames : <<q, e, k>> \in bindings}

publish(message, e, k) ==
    /\ CanGetChannel
    /\ LET fate == AsyncFate(ch_link, IF e \in exchanges THEN "ok" ELSE "404")
           out == AsyncOutcome(fate)
       IN /\ fate = "ok" => \A q \in Routed(e, k) : Len(ready[q]) < MaxReady
          /\ ChanAfterAsync(fate)
          /\ IF fate = "ok"
             THEN /\ ready' = [q \in QueueNames |->
                                 IF q \in Routed(e, k) THEN Append(ready[q], message)
                                 ELSE ready[q]]
                  /\ UNCHANGED <<unacked, nextTag, consumers>>
             ELSE IF IsChanExc(fate) THEN TearDownBroker
             ELSE UNCHANGED delivery
          /\ last' = Call("publish",
                          <<e, k, message.body, message.content_type, message.content_encoding>>,
                          out.ret, out.err,
                          IF ch_link THEN <<"basic.publish">> ELSE <<>>, 0)
    /\ UNCHANGED <<pep479, closeCalled, topo, gen>>

\* ---------------------------------------------------------- Backend.get
\* (mutant) an empty queue is an error
get_return_strict(empty) ==
    IF empty THEN Raised("empty") ELSE Returned("Message")

\* `if not raw_message: return None` / `return self.message_to_python(...)`
get_return(empty) ==
    IF empty THEN Returned("None") ELSE Returned("Message")

get(q, no_ack) ==
    /\ CanGetChannel
    /\ LET reply == queue_reply(q, ch_link)
           empty == ready[q] = <<>>
           out == IF reply # "ok" THEN Raised(reply) ELSE get_return(empty)
       IN /\ (reply = "ok" /\ ~empty) => nextTag <= MaxTags
          /\ ChanAfter(reply)
          /\ IF reply = "ok" /\ ~empty
             THEN /\ ready' = [ready EXCEPT ![q] = Tail(@)]
                  /\ unacked' = IF no_ack THEN unacked
                                ELSE unacked \cup {[tag |-> nextTag, queue |-> q,
                                                    msg |-> Head(ready[q])]}
                  /\ nextTag' = nextTag + 1
                  /\ UNCHANGED consumers
             ELSE IF reply = "ok" THEN UNCHANGED delivery
             ELSE DeliveryAfterFail(reply)
          /\ last' = CallEnv("get", <<q, B(no_ack)>>, out.ret, out.err,
                             IF ch_link THEN <<"basic.get">> ELSE <<>>, 0, "-",
                             IF reply = "ok" /\ ~empty
                             THEN message_to_python(RawDelivery(Head(ready[q]), nextTag))
                             ELSE NoEnvelope)
    /\ UNCHANGED <<pep479, closeCalled, topo, gen>>

\* ------------------------------------ Backend.ack / reject / requeue
Tags == 1..MaxTags
Outstanding(tag) == {u \in unacked : u.tag = tag}

\* basic_ack(delivery_tag) and basic_reject(delivery_tag, requeue): the
\* delivery leaves the unacked set; with requeue it returns to its queue.
Finalize(op, tag, requeue, method) ==
    /\ CanGetChannel
    /\ LET fate == AsyncFate(ch_link, IF Outstanding(tag) # {} THEN "ok" ELSE "406")
           out == AsyncOutcome(fate)
       IN /\ ChanAfterAsync(fate)
          /\ IF fate = "ok"
             THEN /\ unacked' = unacked \ Outstanding(tag)
                  /\ ready' = IF requeue
                              THEN [q \in QueueNames |->
                                      LET back == {u \in Outstanding(tag) : u.queue = q}
                                      IN IF back = {} THEN ready[q]
                                         ELSE <<[(CHOOSE u \in back : TRUE).msg
                                                   EXCEPT !.redelivered = TRUE]>> \o ready[q]]
                              ELSE ready
                  /\ UNCHANGED <<nextTag, consumers>>
             ELSE IF IsChanExc(fate) THEN TearDownBroker
             ELSE UNCHANGED delivery
          /\ last' = Call(op, <<tag>>, out.ret, out.err,
                          IF ch_link THEN <<method>> ELSE <<>>, 0)
    /\ UNCHANGED <<pep479, closeCalled, topo, gen>>

\* (mutant) reject passing requeue=True
reject_requeues(delivery_tag) ==
    Finalize("reject", delivery_tag, TRUE, "basic.reject requeue=True")

ack(delivery_tag) == Finalize("ack", delivery_tag, FALSE, "basic.ack")
reject(delivery_tag) == Finalize("reject", delivery_tag, FALSE, "basic.reject requeue=False")
requeue(delivery_tag) == Finalize("requeue", delivery_tag, TRUE, "basic.reject requeue=True")

\* --------------------- Backend.declare_consume / Backend.declare_consumer
consume_reply(q, tag) ==
    CASE queues[q].state = "absent" -> "404"
      [] queues[q].state = "foreign" -> "405"
      [] \E c \in consumers : c.tag = tag -> "530"
      [] OTHER -> "ok"

Register(q, no_ack, tag) == consumers \cup {[tag |-> tag, queue |-> q, no_ack |-> no_ack]}

declare_consume(q, no_ack, consumer_tag) ==
    /\ CanGetChannel
    /\ LET reply == SyncReply(ch_link, consume_reply(q, consumer_tag))
           out == IF reply = "ok" THEN Returned(consumer_tag) ELSE Raised(reply)
       IN /\ ChanAfter(reply)
          /\ IF reply = "ok"
             THEN /\ consumers' = Register(q, no_ack, consumer_tag)
                  /\ UNCHANGED <<ready, unacked, nextTag>>
             ELSE DeliveryAfterFail(reply)
          /\ last' = Call("declare_consume", <<q, consumer_tag>>, out.ret, out.err,
                          IF ch_link THEN <<"basic.consume">> ELSE <<>>, 0)
    /\ UNCHANGED <<pep479, closeCalled, topo, gen>>

declare_consumer(q, no_ack, consumer_tag, nowait) ==
    /\ CanGetChannel
    /\ LET normal == consume_reply(q, consumer_tag)
           reply == IF nowait THEN AsyncFate(ch_link, normal) ELSE SyncReply(ch_link, normal)
           out == IF nowait THEN AsyncOutcome(reply)
                  ELSE IF reply = "ok" THEN Returned("None") ELSE Raised(reply)
       IN /\ IF nowait THEN ChanAfterAsync(reply) ELSE ChanAfter(reply)
          /\ IF reply = "ok"
             THEN /\ consumers' = Register(q, no_ack, consumer_tag)
                  /\ UNCHANGED <<ready, unacked, nextTag>>
             ELSE IF nowait
                  THEN IF IsChanExc(reply) THEN TearDownBroker ELSE UNCHANGED delivery
                  ELSE DeliveryAfterFail(reply)
          /\ last' = Call("declare_consumer", <<q, consumer_tag>>, out.ret, out.err,
                          IF ch_link THEN <<"basic.consume">> ELSE <<>>, 0)
    /\ UNCHANGED <<pep479, closeCalled, topo, gen>>

\* ----------------------------------------------------- Backend.consume
\* Calling consume(limit) only creates the generator; limit=None is
\* hasLimit = FALSE.
consume(hasLimit, limit) ==
    /\ gen' = [status |-> "suspended", hasLimit |-> hasLimit, limit |-> limit,
               count |-> 0, waits |-> 0, yields |-> 0, err |-> "none"]
    /\ last' = Call("consume", <<B(hasLimit), ToString(limit)>>, "generator", "none", <<>>, 0)
    /\ UNCHANGED <<pep479, _channel, is_open, connection, getChannelCalls, closeCalled,
                   topo, delivery, pendingClose>>

\* (mutant) the loop also ends when the channel has no consumer left
limit_reached_idle(hasLimit, limit, total_message_count) ==
    consumers = {} \/ (hasLimit /\ limit # 0 /\ total_message_count >= limit)

\* (mutant) `if total_message_count >= (limit or 0)`
limit_reached_always(hasLimit, limit, total_message_count) ==
    total_message_count >= limit

\* (mutant) `if limit is not None and total_message_count >= limit`
limit_reached_zero(hasLimit, limit, total_message_count) ==
    hasLimit /\ total_message_count >= limit

\* `if limit and total_message_count >= limit`
limit_reached(hasLimit, limit, total_message_count) ==
    hasLimit /\ limit # 0 /\ total_message_count >= limit

\* `raise StopIteration` in the generator body: the end of the sequence, or
\* (PEP 479) a RuntimeError in the caller.
stop_iteration(pep) == IF pep THEN Raised("RuntimeError") ELSE Returned("StopIteration")

\* A consumer the broker can deliver to now.
Deliverable == {c \in consumers : ready[c.queue] # <<>>}

\* The caller asks the generator for its next item: the loop body runs from
\* the top of an iteration to the next yield, or to the end.
next ==
    /\ gen.status = "suspended"
    /\ IF limit_reached(gen.hasLimit, gen.limit, gen.count)
       THEN LET out == stop_iteration(pep479)
            IN /\ gen' = [gen EXCEPT !.status = IF out.err = "none" THEN "done" ELSE "raised",
                                     !.err = out.err]
               /\ last' = Call("next", <<>>, out.ret, out.err, <<>>, 0)
               /\ UNCHANGED <<_channel, is_open, connection, getChannelCalls, delivery,
                              pendingClose>>
       ELSE /\ CanGetChannel
            /\ gen.waits < MaxWaits
            /\ LET reply == SyncReply(ch_link, "ok")
               IN /\ ChanAfter(reply)
                  /\ IF reply = "ok"
                     THEN \/ /\ gen' = [gen EXCEPT !.count = @ + 1, !.waits = @ + 1,
                                                   !.yields = @ + 1]
                             /\ last' = Call("next", <<>>, "True", "none", <<"wait">>, 0)
                             /\ UNCHANGED delivery
                          \/ \E c \in Deliverable :
                             /\ nextTag <= MaxTags
                             /\ ready' = [ready EXCEPT ![c.queue] = Tail(@)]
                             /\ unacked' = IF c.no_ack THEN unacked
                                           ELSE unacked \cup {[tag |-> nextTag,
                                                               queue |-> c.queue,
                                                               msg |-> Head(ready[c.queue])]}
                             /\ nextTag' = nextTag + 1
                             /\ UNCHANGED consumers
                             /\ gen' = [gen EXCEPT !.count = @ + 1, !.waits = @ + 1,
                                                   !.yields = @ + 1]
                             /\ last' = CallCb("next", <<>>, "True", "none", <<"wait">>, 0, c.tag)
                     ELSE /\ gen' = [gen EXCEPT !.status = "raised", !.err = reply, !.waits = @ + 1]
                          /\ last' = Call("next", <<>>, "raise", reply,
                                          IF ch_link THEN <<"wait">> ELSE <<>>, 0)
                          /\ DeliveryAfterFail(reply)
    /\ UNCHANGED <<pep479, closeCalled, topo>>

\* ------------------------------------------------------ specifications
Limits == 0..MaxLimit
OneQueue == {"q1"}
OneKey == {"k1"}

\* Every operation of the backend.  Deliveries run through one queue, one
\* exchange and one routing key; the existence probe ranges over both names.
Next ==
    \/ close
    \/ \E t \in ConsumerTags : cancel(t)
    \/ \E q \in QueueNames : queue_exists(q)
    \/ \E q \in OneQueue, w \in BOOLEAN : queue_declare(q, TRUE, FALSE, FALSE, w)
    \/ \E e \in ExchangeNames : exchange_declare(e)
    \/ \E q \in OneQueue, e \in ExchangeNames, k \in OneKey : queue_bind(q, e, k)
    \/ \E q \in OneQueue : queue_purge(q)
    \/ \E b \in Bodies, t \in ContentTypes, c \in ContentEncodings,
          e \in ExchangeNames, k \in OneKey :
          publish(prepare_message(b, 2, t, c), e, k)
    \/ \E q \in OneQueue, n \in BOOLEAN : get(q, n)
    \/ \E t \in Tags : ack(t)
    \/ \E t \in Tags : reject(t)
    \/ \E t \in Tags : requeue(t)
    \/ \E q \in OneQueue, t \in ConsumerTags : declare_consume(q, FALSE, t)
    \/ \E q \in OneQueue, w \in BOOLEAN, t \in ConsumerTags : declare_consumer(q, FALSE, t, w)
    \/ consume(FALSE, 0)
    \/ consume(TRUE, 1)
    \/ next

Spec == Init /\ [][Next]_vars

\* The consume sequence under every limit and both interpreter behaviours,
\* with the calls that can close the channel under it.
NextConsume ==
    \/ consume(FALSE, 0)
    \/ \E n \in Limits : consume(TRUE, n)
    \/ next
    \/ close
    \/ \E t \in ConsumerTags : cancel(t)
    \/ \E t \in Tags : ack(t)

SpecConsume == InitConsume /\ [][NextConsume]_vars

\* Publishing and fetching through a declared topology: exchange x1 bound to
\* queue q1 under routing key k1.  Messages range over two bodies and over
\* content types and encodings that are given or left at their default None.
RoundTripBodies == {"b1", "b2"}
RoundTripTypes == {"text/plain", "None"}
RoundTripEncodings == {"utf-8", "None"}

InitRoundTrip ==
    /\ _channel = NoChannel
    /\ is_open = FALSE
    /\ connection = FALSE
    /\ getChannelCalls = 0
    /\ closeCalled = FALSE
    /\ queues = [q \in QueueNames |-> IF q \in OneQueue THEN Own(TRUE, FALSE, FALSE) ELSE Absent]
    /\ exchanges = ExchangeNames
    /\ bindings = {<<q, e, k>> : q \in OneQueue, e \in ExchangeNames, k \in OneKey}
    /\ ready = [q \in QueueNames |-> <<>>]
    /\ unacked = {}
    /\ nextTag = 1
    /\ consumers = {}
    /\ pendingClose = "none"
    /\ gen = NoGen
    /\ pep479 = FALSE
    /\ last = Call("init", <<>>, "None", "none", <<>>, 0)

NextRoundTrip ==
    \/ \E b \in RoundTripBodies, t \in RoundTripTypes, c \in RoundTripEncodings,
          e \in ExchangeNames, k \in RoutingKeys :
          publish(prepare_message(b, 2, t, c), e, k)
    \/ \E q \in OneQueue : get(q, TRUE)

SpecRoundTrip == InitRoundTrip /\ [][NextRoundTrip]_vars

\* Building envelopes: raw deliveries that carry any subset of the five
\* attributes, and keyword arguments of the caller that name some of the
\* five and one other key.
RawValues == {"raw"}
CallerKeys == {"body", "delivery_tag", "extra"}
CallerValues == {"caller"}
RawDeliveries == UNION {[S -> RawValues] : S \in SUBSET MessageFields}
CallerKwargs == UNION {[S -> CallerValues] : S \in SUBSET CallerKeys}

\* Backend.message_to_python(raw_message)
to_python(raw_message) ==
    /\ last' = CallEnv("message_to_python", <<raw_message, NoKwargs>>, "Message", "none",
                       <<>>, 0, "-", message_to_python(raw_message))
    /\ UNCHANGED <<pep479, _channel, is_open, connection, getChannelCalls, closeCalled,
                   topo, delivery, pendingClose, gen>>

\* Message(backend, amqp_message, **kwargs)
new_Message(amqp_message, kwargs) ==
    /\ last' = CallEnv("Message", <<amqp_message, kwargs>>, "Message", "none",
                       <<>>, 0, "-", Message(amqp_message, kwargs))
    /\ UNCHANGED <<pep479, _channel, is_open, connection, getChannelCalls, closeCalled,
                   topo, delivery, pendingClose, gen>>

NextEnvelope ==
    \/ \E raw \in RawDeliveries : to_python(raw)
    \/ \E raw \in RawDeliveries, kwargs \in CallerKwargs : new_Message(raw, kwargs)

SpecEnvelope == InitRoundTrip /\ [][NextEnvelope]_vars

\* ================================================================ claims
\* C1 (as claimed; refuted under SpecConsume): for every limit n >= 1, a
\* consume(limit=n) sequence iterated until the limit check ends it has
\* performed exactly n waits and yielded exactly n progress signals, and it
\* ends as a plain end of sequence, with no error raised to the caller.
C1_LimitedConsumeStopsCleanly ==
    (/\ gen.hasLimit
     /\ gen.limit >= 1
     /\ \/ gen.status = "done"
        \/ gen.status = "raised" /\ gen.err = "RuntimeError")
    => (gen.status = "done" /\ gen.waits = gen.limit /\ gen.yields = gen.limit)

\* C2 (as claimed; refuted under SpecConsume): a consume(limit=0) sequence
\* performs no channel wait and yields no progress signal.
C2_ZeroLimitStopsImmediately ==
    (gen.status # "none" /\ gen.hasLimit /\ gen.limit = 0)
    => (gen.waits = 0 /\ gen.yields = 0)

\* C2 (amended): limit=0 is no limit.  A consume(limit=0) sequence, like a
\* consume() sequence, is never ended by the limit check: it is suspended or
\* was ended by a wait that raised, every request has performed one wait, and
\* every completed wait has yielded one progress signal.
C2_ZeroLimitIsNoLimit ==
    (gen.status # "none" /\ gen.limit = 0)
    => /\ gen.status \in {"suspended", "raised"}
       /\ gen.err # "RuntimeError"
       /\ gen.yields = gen.count
       /\ gen.status = "suspended" => gen.waits = gen.yields
       /\ gen.status = "raised" => gen.waits = gen.yields + 1

C2_Witness == gen.hasLimit /\ gen.limit = 0 /\ gen.status = "suspended" /\ gen.yields >= 3

\* C3 (as claimed; refuted under Spec): cancel on a backend that has no
\* channel yet raises nothing, sends nothing, requests no channel and leaves
\* the backend and the broker as they were.
C3_CancelBeforeChannelIsNoOp ==
    [][(_channel = NoChannel /\ last'.op = "cancel")
       => /\ last'.err = "none"
          /\ last'.sent = <<>>
          /\ UNCHANGED <<_channel, is_open, connection, getChannelCalls, closeCalled,
                         topo, delivery, pendingClose, gen>>]_vars

\* C4: over any sequence of operations connection.get_channel() is called
\* at most once, and the backend's channel is the one that call returned:
\* later operations reuse it, also after close().
C4_ChannelRequestedAtMostOnce ==
    /\ getChannelCalls <= 1
    /\ _channel = getChannelCalls

C4_Witness ==
    closeCalled /\ last.op = "publish" /\ last.err = "closed" /\ getChannelCalls = 1

\* C5: once close() has been called, every operation that uses the channel
\* raises the closed-channel error, sends nothing and leaves the broker as it
\* was; so does the request of a consume sequence that reaches its wait.
ChannelOps ==
    {"queue_exists", "queue_declare", "exchange_declare", "queue_bind", "queue_purge",
     "publish", "get", "ack", "reject", "requeue", "declare_consume", "declare_consumer"}

C5_ClosedBackendFails ==
    [][closeCalled
       => /\ last'.op \in ChannelOps
             => /\ last'.ret = "raise"
                /\ last'.err = "closed"
                /\ last'.sent = <<>>
                /\ UNCHANGED <<topo, delivery>>
          /\ (last'.op = "next" /\ last'.ret # "StopIteration")
             => /\ last'.ret = "raise"
                /\ last'.err = "closed"
                /\ gen'.status = "raised"
                /\ gen'.yields = gen.yields
                /\ UNCHANGED <<topo, delivery>>]_vars

C5_Witness == closeCalled /\ last.op = "get" /\ last.err = "closed"

\* C6: close() on a backend whose channel is already closed sends no
\* channel close, raises nothing and changes nothing; close() on an open
\* channel sends one channel close and leaves the channel closed.
C6_CloseIdempotent ==
    [][last'.op = "close"
       => /\ (_channel # NoChannel /\ ~is_open)
             => /\ last'.sent = <<>>
                /\ last'.err = "none"
                /\ UNCHANGED <<_channel, is_open, connection, getChannelCalls,
                               topo, delivery, pendingClose, gen>>
          /\ (_channel # NoChannel /\ is_open)
             => /\ last'.sent = <<"channel.close">>
                /\ ~is_open'
                /\ ~connection']_vars

C6_Witness ==
    closeCalled /\ last.op = "close" /\ last.sent = <<>> /\ _channel # NoChannel /\ ~is_open

\* C7: cancel on a channel whose connection is gone returns without error
\* and sends nothing; on a channel with its connection it sends exactly one
\* basic_cancel, after which no consumer holds that tag.
C7_CancelWithoutLink ==
    [][last'.op = "cancel"
       => /\ (_channel # NoChannel /\ ~connection)
             => /\ last'.ret = "None"
                /\ last'.err = "none"
                /\ last'.sent = <<>>
                /\ UNCHANGED <<_channel, is_open, connection, getChannelCalls,
                               topo, delivery, pendingClose, gen>>
          /\ (_channel # NoChannel /\ connection)
             => /\ last'.sent = <<"basic.cancel">>
                /\ \A c \in consumers' : c.tag # last'.arg[1]]_vars

C7_Witness == closeCalled /\ last.op = "cancel" /\ last.sent = <<>> /\ last.err = "none"

\* C8 (as claimed; refuted under Spec): on a channel that has its connection,
\* for a queue name no other connection holds, queue_exists raises nothing
\* (other than a channel error that is not 404), returns true exactly when
\* the queue is declared, and leaves the broker's queues as they were.
C8_QueueExistsReportsBroker ==
    [][(/\ last'.op = "queue_exists"
        /\ ch_link
        /\ queues[last'.arg[1]].state # "foreign"
        /\ last'.err \notin ChannelErrors \ {"404"})
       => /\ last'.err = "none"
          /\ last'.ret = B(queues[last'.arg[1]].state = "own")
          /\ queues' = queues]_vars

\* C9: a probe that fails with a channel error other than 404 makes
\* queue_exists raise that same error after one passive declare; and
\* queue_declare(warn_if_exists=true) raises it too, with no advisory, no
\* declare sent and the broker's queues as they were.
C9_OtherErrorsPropagate ==
    [][/\ last'.op = "queue_exists"
          => LET reply == passive_declare_reply(last'.arg[1], ch_link)
             IN (IsChanExc(reply) /\ reply # "404")
                => /\ last'.ret = "raise"
                   /\ last'.err = reply
                   /\ last'.sent = <<"queue.declare passive">>
       /\ (last'.op = "queue_declare" /\ last'.arg[2] = "True")
          => LET reply == passive_declare_reply(last'.arg[1], ch_link)
             IN (IsChanExc(reply) /\ reply # "404")
                => /\ last'.ret = "raise"
                   /\ last'.err = reply
                   /\ last'.warned = 0
                   /\ last'.sent = <<"queue.declare passive">>
                   /\ queues' = queues]_vars

C9_Witness ==
    last.op = "queue_declare" /\ last.arg = <<"q1", "True">> /\ last.err = "405"

\* C10 (as claimed; refuted under Spec): on a channel that has its
\* connection, for a queue name no other connection holds and unless a
\* channel error other than 404 is raised, queue_declare(warn_if_exists=true)
\* emits exactly one advisory when the queue exists, and then still sends the
\* declare and returns its result, and emits none when the queue does not
\* exist; with warn_if_exists=false it emits none and makes no probe.
C10_AdvisoryIffExists ==
    [][(/\ last'.op = "queue_declare"
        /\ ch_link
        /\ queues[last'.arg[1]].state # "foreign"
        /\ last'.err \notin ChannelErrors \ {"404"})
       => IF last'.arg[2] = "True"
          THEN IF queues[last'.arg[1]].state = "own"
               THEN /\ last'.warned = 1
                    /\ last'.err = "none"
                    /\ last'.ret = "declare_ok"
                    /\ last'.sent = <<"queue.declare passive", "queue.declare">>
               ELSE last'.warned = 0
          ELSE /\ last'.warned = 0
               /\ last'.sent = <<"queue.declare">>]_vars

\* C11 (as claimed; refuted under Spec): ack, reject or requeue of a
\* delivery tag that was issued and is no longer outstanding fails: the call
\* raises an error, on a channel with its connection as on a closed one.
FinalOps == {"ack", "reject", "requeue"}
Finalized(tag) == tag < nextTag /\ Outstanding(tag) = {}

C11_SecondFinalizeRaises ==
    [][(last'.op \in FinalOps /\ Finalized(last'.arg[1]))
       => last'.ret = "raise"]_vars

\* What the code does instead: ack, reject or requeue of a tag that is no
\* longer outstanding puts no message back and finalizes none, and on a channel
\* with its connection the call itself returns without error: the broker's
\* 406 closes the channel and is raised by the next call that waits on it
\* (it is pending after the call).  On a channel without connection the call
\* raises at once and sends nothing.
C11_SecondFinalizeIsPending ==
    [][(last'.op \in FinalOps /\ Finalized(last'.arg[1]))
       => /\ \A u \in unacked' : u.tag # last'.arg[1]
          /\ \A q \in QueueNames :
                Len(ready'[q]) = Len(ready[q]) + Cardinality({u \in unacked \ unacked' : u.queue = q})
          /\ IF ch_link
             THEN /\ last'.ret = "None"
                  /\ last'.err = "none"
                  /\ pendingClose' \in ChannelErrors
                  /\ pendingClose = "none" => pendingClose' = "406"
             ELSE /\ last'.ret = "raise"
                  /\ last'.err = "closed"
                  /\ last'.sent = <<>>
                  /\ UNCHANGED delivery]_vars

C11_SecondFinalizeReached ==
    /\ last.op = "ack"
    /\ last.ret = "None"
    /\ pendingClose = "406"
    /\ nextTag > last.arg[1]

\* C12: get(q) on a declared queue, over a channel with its connection and
\* no error pending: if q is empty the call returns None, raises nothing and
\* leaves every queue, the outstanding tags and the consumers unchanged; if q
\* is not empty it returns a Message envelope and exactly one message, the
\* head, leaves the ready messages of q and no other queue
\* changes.
GetServed(q) == ch_link /\ pendingClose = "none" /\ queues[q].state = "own"

C12_GetEmptyOrOne ==
    [][\A q \in QueueNames :
        (last'.op = "get" /\ last'.arg[1] = q /\ GetServed(q))
        => IF ready[q] = <<>>
           THEN /\ last'.ret = "None"
                /\ last'.err = "none"
                /\ UNCHANGED delivery
           ELSE /\ last'.ret = "Message"
                /\ last'.err = "none"
                /\ ready'[q] = Tail(ready[q])
                /\ \A r \in QueueNames \ {q} : ready'[r] = ready[r]]_vars

C12_Witness ==
    /\ last.op = "get"
    /\ last.ret = "None"
    /\ queues[last.arg[1]].state = "own"
    /\ unacked # {}

\* C13: round trip.  When a message prepared from body B, content type T and
\* content encoding E has been published to an exchange bound to queue Q
\* under the routing key used, and it is the only ready message of Q, the
\* get(Q) that follows returns an envelope whose body, content_type and
\* content_encoding are B, T and E (None where none was given).
PublishedTo(q) ==
    /\ last.op = "publish"
    /\ last.sent # <<>>
    /\ pendingClose = "none"
    /\ last.arg[1] \in exchanges
    /\ q \in Routed(last.arg[1], last.arg[2])
    /\ Len(ready[q]) = 1

C13_RoundTrip ==
    [][\A q \in QueueNames :
        (PublishedTo(q) /\ last'.op = "get" /\ last'.arg[1] = q)
        => /\ last'.ret = "Message"
           /\ last'.env.body = last.arg[3]
           /\ last'.env.content_type = last.arg[4]
           /\ last'.env.content_encoding = last.arg[5]]_vars

C13_Witness ==
    /\ last.op = "get"
    /\ last.ret = "Message"
    /\ last.env.body = "b2"
    /\ last.env.content_type = "None"
    /\ last.env.content_encoding = "utf-8"
    /\ last.env.delivery_info = "first"

\* C14: a consume() sequence without limit never stops on its own.  After
\* any number k of progress signals, a further request of the caller performs
\* one more channel wait, and then either yields one more progress signal and
\* stays suspended, or ends with the error that wait raised; the sequence is
\* never ended by the limit check (no end of sequence, no RuntimeError).
C14_UnlimitedConsumeGoesOn ==
    [][(~gen.hasLimit /\ gen.status = "suspended" /\ last'.op = "next")
       => /\ gen'.waits = gen.waits + 1
          /\ \/ /\ gen'.status = "suspended"
                /\ gen'.yields = gen.yields + 1
                /\ last'.ret = "True"
             \/ /\ gen'.status = "raised"
                /\ gen'.yields = gen.yields
                /\ gen'.err \in ChannelErrors \cup {"closed"}
                /\ last'.ret = "raise"]_vars

C14_Witness ==
    /\ ~gen.hasLimit
    /\ gen.status = "suspended"
    /\ gen.yields = MaxWaits
    /\ last.op = "next"

\* C15: on a channel with its connection and no error pending, ack, reject
\* and requeue of an outstanding tag all finalize the delivery (it is no
\* longer outstanding) and differ in what becomes of the message: ack sends
\* basic.ack and reject sends basic.reject with requeue=False, and the message
\* is on no queue afterwards; requeue sends basic.reject with requeue=True
\* and the message is back at the head of its queue, flagged redelivered.
Redelivered(u) == [u.msg EXCEPT !.redelivered = TRUE]

C15_RejectDropsRequeueReturns ==
    [][\A u \in unacked :
        (last'.op \in FinalOps /\ last'.arg[1] = u.tag /\ ch_link /\ pendingClose = "none")
        => /\ last'.err = "none"
           /\ unacked' = unacked \ {u}
           /\ \A q \in QueueNames \ {u.queue} : ready'[q] = ready[q]
           /\ last'.op = "ack"
                => ready' = ready /\ last'.sent = <<"basic.ack">>
           /\ last'.op = "reject"
                => ready' = ready /\ last'.sent = <<"basic.reject requeue=False">>
           /\ last'.op = "requeue"
                => /\ ready'[u.queue] = <<Redelivered(u)>> \o ready[u.queue]
                   /\ last'.sent = <<"basic.reject requeue=True">>]_vars

C15_Witness ==
    /\ last.op = "requeue"
    /\ last.err = "none"
    /\ pendingClose = "none"
    /\ \E q \in QueueNames : ready[q] # <<>> /\ Head(ready[q]).redelivered

\* C16: cancel(consumer_tag) does not end a consume sequence.  The cancel
\* call leaves the generator as it was; a request that follows it performs a
\* channel wait unless the limit is set, non-zero and reached by the count of
\* completed waits; and once cancel has run, the channel holds no consumer of
\* that tag, while a wait dispatches only to a consumer the channel holds.
C16_CancelDoesNotEndConsume ==
    [][/\ last'.op = "cancel"
          => /\ gen' = gen
             /\ \A c \in consumers' : c.tag # last'.arg[1]
       /\ (last.op = "cancel" /\ last'.op = "next" /\ gen.status = "suspended")
          => IF gen.hasLimit /\ gen.limit # 0 /\ gen.count >= gen.limit
             THEN gen'.waits = gen.waits
             ELSE gen'.waits = gen.waits + 1
       /\ (last'.op = "next" /\ last'.cb # "-")
          => \E c \in consumers : c.tag = last'.cb]_vars

\* a consumer cancelled in the middle of a sequence that can go on
C16_Witness ==
    /\ last.op = "cancel"
    /\ last.err = "none"
    /\ last.sent = <<"basic.cancel">>
    /\ gen.status = "suspended"
    /\ ~gen.hasLimit
    /\ gen.yields >= 1
    /\ gen.waits < MaxWaits

\* C17 (as claimed; refuted under Spec): queue_declare of a name that does
\* not exist yet, over a channel with its connection and no error pending,
\* declares the queue whether warn_if_exists is false or true: the call
\* returns the declare result, the queue exists afterwards and the channel is
\* still open.
C17_WarnIfExistsOnlyWarns ==
    [][\A q \in QueueNames :
        (/\ last'.op = "queue_declare"
         /\ last'.arg[1] = q
         /\ queues[q].state = "absent"
         /\ ch_link
         /\ pendingClose = "none")
        => /\ last'.ret = "declare_ok"
           /\ queues'[q].state = "own"
           /\ is_open']_vars

\* C18 (as claimed; refuted under Spec): close() on a backend that has never
\* opened a channel requests no channel from the connection, sends nothing
\* and leaves the backend without a channel.
C18_CloseWithoutChannelIsNoOp ==
    [][(_channel = NoChannel /\ last'.op = "close")
       => /\ _channel' = NoChannel
          /\ getChannelCalls' = getChannelCalls
          /\ last'.sent = <<>>]_vars

\* C19: building an envelope from a raw delivery never fails, whatever
\* subset of body, delivery_tag, content_type, content_encoding and
\* delivery_info the delivery carries: each field it carries is in the
\* envelope with the delivery's value, each field it lacks is None, and a
\* value the caller supplied for one of the five is replaced by the
\* delivery's (or by None).
EnvelopeOps == {"message_to_python", "Message"}

C19_EnvelopeFromPartialDelivery ==
    last.op \in EnvelopeOps
    => /\ last.err = "none"
       /\ \A f \in MessageFields :
            last.env[f] = IF f \in DOMAIN last.arg[1] THEN last.arg[1][f] ELSE "None"

C19_Witness ==
    /\ last.op = "Message"
    /\ DOMAIN last.arg[1] = {"body", "content_type"}
    /\ DOMAIN last.arg[2] = CallerKeys
    /\ last.env.body = "raw"
    /\ last.env.delivery_tag = "None"

====
